---- MODULE Spec2Model ----
(***************************************************************************)
(* Model of lightkurve/injection.py: parameter distributions, the transit  *)
(* and supernova signal models, inject, recover and injrec_test.           *)
(*                                                                         *)
(* Numbers are integers in fixed units: flux and flux_err in hundredths,   *)
(* redshift z, rprs, the SALT colour c and the limb-darkening coefficients *)
(* in tenths, chi-square and objective values in eighths, the tolerance    *)
(* constr in percent.  Python values that may be a number, a Distribution  *)
(* object, None or an omitted keyword are tagged records.                  *)
(***************************************************************************)
EXTENDS Integers, Sequences, FiniteSets, TLC

\* the attribute, keyword and field names of the objects modelled, in the
\* order records list them
Names ==
    [T0 |-> "T0", a |-> "a", amplitude |-> "amplitude", attrs |-> "attrs",
     bandpass |-> "bandpass", built |-> "built", c |-> "c", cls |-> "cls",
     constr |-> "constr", den |-> "den", depth |-> "depth", ecc |-> "ecc",
     evals |-> "evals", evaluator |-> "evaluator", flux |-> "flux",
     flux_err |-> "flux_err", handed |-> "handed", i |-> "i", in1 |-> "in1",
     in2 |-> "in2", inc |-> "inc", initial_guess |-> "initial_guess",
     injected |-> "injected", lb |-> "lb", lc |-> "lc",
     limb_dark |-> "limb_dark", mean |-> "mean", model |-> "model",
     multiplicative |-> "multiplicative", nprop |-> "nprop",
     nrecovered |-> "nrecovered", ntests |-> "ntests", num |-> "num",
     objective |-> "objective", ok |-> "ok", outcome |-> "outcome",
     params |-> "params", passlog |-> "passlog", pc |-> "pc", per |-> "per",
     period |-> "period", recovered |-> "recovered", result |-> "result",
     rp |-> "rp", rprs |-> "rprs", self |-> "self", signal |-> "signal",
     signal_type |-> "signal_type", signaltype |-> "signaltype",
     sn_params |-> "sn_params", source |-> "source", synth |-> "synth",
     t0 |-> "t0", tag |-> "tag", theta |-> "theta", time |-> "time",
     u |-> "u", ub |-> "ub", v |-> "v", value |-> "value", var |-> "var",
     w |-> "w", x0 |-> "x0", x1 |-> "x1", z |-> "z"]

\* ------------------------------------------------------------------ bounds
NPoints == 3
MaxEvals == 2
MaxProposals == 2
MaxTests == 3

\* ---------------------------------------------------------- python values
Lit(v) == [tag |-> "lit", v |-> v]
Omitted == [tag |-> "omitted"]
NoneVal == [tag |-> "none"]

UniformDistribution(lb, ub) == [lb |-> lb, tag |-> "uniform", ub |-> ub]
GaussianDistribution(mean, var) == [mean |-> mean, tag |-> "gaussian", var |-> var]

\* isinstance(val, (GaussianDistribution, UniformDistribution))
IsDistribution(val) == val.tag \in {"uniform", "gaussian"}

IsScalar(val) == val.tag = "lit"

\* The values one call of val.sample() can return.  np.random.uniform draws
\* from [lb, ub) (lb itself for a zero-width range, (ub, lb] for an inverted
\* one); np.random.normal is cut to one deviation around the mean.
sample(val) ==
    IF val.tag = "uniform"
    THEN IF val.lb < val.ub THEN val.lb .. (val.ub - 1)
         ELSE IF val.lb = val.ub THEN {val.lb}
         ELSE (val.ub + 1) .. val.lb
    ELSE IF val.tag = "gaussian"
    THEN {val.mean - val.var, val.mean, val.mean + val.var}
    ELSE {0}

\* setattr(self, key, val.sample()) / setattr(self, key, val)
Resolve(val, draw) == IF IsDistribution(val) THEN Lit(draw) ELSE val

\* ------------------------------------------------------------ light curve
\* time, strictly increasing
Time == [i \in 1 .. NPoints |-> 2 * (i - 1)]

FluxValues == {100, 200}
ErrValues == {1, 2}

LightCurves ==
    { [flux |-> [i \in 1 .. NPoints |-> f], flux_err |-> [i \in 1 .. NPoints |-> e], time |-> Time]
        : f \in FluxValues, e \in ErrValues }
    \cup
    { [flux |-> [i \in 1 .. NPoints |-> IF i = 1 THEN 100 ELSE 200],
       flux_err |-> [i \in 1 .. NPoints |-> IF i = 1 THEN 2 ELSE 1],
       time |-> Time] }

\* time.astype(np.float): same values, as floats
AsFloat(time) == [i \in DOMAIN time |-> time[i]]

\* ---------------------------------------------------------- TransitModel
ParamKeys == {"period", "rprs", "T0", "a", "inc", "ecc", "w", "limb_dark", "u"}
BatmanKeys == {"t0", "per", "rp", "a", "inc", "ecc", "w", "limb_dark", "u"}

\* defaults of add_planet's signature
AddPlanetDefaults ==
    [T0 |-> Lit(5),
     a |-> Lit(15),
     ecc |-> Lit(0),
     inc |-> Lit(90),
     limb_dark |-> Lit("quadratic"),
     period |-> Omitted,
     rprs |-> Omitted,
     u |-> Lit(<<1, 3>>),
     w |-> Lit(90)]

\* batman.TransitParams(): every field unset
TransitParams == [k \in BatmanKeys |-> NoneVal]

NoModel == [cls |-> "None"]

TransitModel__init__ ==
    [attrs |-> [k \in {} |-> NoneVal],
     cls |-> "TransitModel",
     model |-> TransitParams,
     multiplicative |-> TRUE,
     signaltype |-> "Planet"]

\* the params dictionary built from the call's arguments
PlanetParams(args) ==
    [k \in ParamKeys |-> IF args[k].tag = "omitted" THEN AddPlanetDefaults[k] ELSE args[k]]

\* add_planet as it would be if it stored only the keywords the call passes
add_planet_supplied_only(self, args, draws) ==
    LET params == PlanetParams(args)
        attrs == [k \in ParamKeys |->
                    IF args[k].tag = "omitted" /\ k \in DOMAIN self.attrs
                    THEN self.attrs[k]
                    ELSE Resolve(params[k], draws[k])]
    IN [self EXCEPT
          !.attrs = attrs,
          !.model = [a |-> attrs["a"],
                     ecc |-> attrs["ecc"],
                     inc |-> attrs["inc"],
                     limb_dark |-> params["limb_dark"],
                     per |-> attrs["period"],
                     rp |-> attrs["rprs"],
                     t0 |-> attrs["T0"],
                     u |-> params["u"],
                     w |-> attrs["w"]]]

add_planet(self, args, draws) ==
    LET params == PlanetParams(args)
        attrs == [k \in ParamKeys |-> Resolve(params[k], draws[k])]
    IN [self EXCEPT
          !.attrs = attrs,
          !.model = [a |-> attrs["a"],
                     ecc |-> attrs["ecc"],
                     inc |-> attrs["inc"],
                     limb_dark |-> params["limb_dark"],
                     per |-> attrs["period"],
                     rp |-> attrs["rprs"],
                     t0 |-> attrs["T0"],
                     u |-> params["u"],
                     w |-> attrs["w"]]]

\* batman's light curve for the parameters handed over: 100 (relative flux 1)
\* out of transit, 100 - rp^2 at the times of conjunction
BatmanLightCurve(m, t) ==
    [i \in DOMAIN t |->
        IF m.per.v > 0 /\ (t[i] - m.t0.v) % m.per.v = 0
        THEN 100 - m.rp.v * m.rp.v
        ELSE 100]

\* TransitModel.evaluate: [ok, flux, self, handed]
TransitEvaluate(self, time) ==
    LET t == AsFloat(time)
        ok == \A k \in BatmanKeys : IsScalar(self.model[k])
    IN [flux |-> IF ok THEN BatmanLightCurve(self.model, t) ELSE <<>>,
        handed |-> [evaluator |-> "batman", params |-> self.model],
        ok |-> ok,
        self |-> self]

\* --------------------------------------------------------- SupernovaModel
A_eff_cm2 == 5480
ZDefault == 5

SupernovaModel__init__(T0, source, bandpass, z, kwargs, draws) ==
    [T0 |-> T0,
     bandpass |-> bandpass,
     cls |-> "SupernovaModel",
     multiplicative |-> FALSE,
     params |-> [k \in {} |-> NoneVal],
     signaltype |-> "Supernova",
     sn_params |-> [k \in DOMAIN kwargs |-> Resolve(kwargs[k], draws[k])],
     source |-> source,
     z |-> Resolve(IF z.tag = "omitted" THEN Lit(ZDefault) ELSE z, draws["z"])]

\* sncosmo's band intensity: the amplitude (x0 for the SALT sources, 1 when
\* not set) from t0 on, for a duration stretched by the redshift
SncosmoBandflux(t0, z, sn_params, time) ==
    LET amp == IF "amplitude" \in DOMAIN sn_params THEN sn_params["amplitude"].v
               ELSE IF "x0" \in DOMAIN sn_params THEN sn_params["x0"].v
               ELSE 1
    IN [i \in DOMAIN time |->
          IF time[i] >= t0 /\ time[i] <= t0 + ((10 + z) \div 5) THEN amp ELSE 0]

\* SupernovaModel.evaluate: [ok, flux, self, handed]
SupernovaEvaluate(self, time) ==
    LET ok == IsScalar(self.T0) /\ IsScalar(self.z)
              /\ \A k \in DOMAIN self.sn_params : IsScalar(self.sn_params[k])
        band_intensity == SncosmoBandflux(self.T0.v, self.z.v, self.sn_params, time)
        bandflux == IF self.bandpass = "kepler"
                    THEN [i \in DOMAIN time |-> band_intensity[i] * A_eff_cm2]
                    ELSE band_intensity
        params == [k \in DOMAIN self.sn_params \cup {"signal"} |->
                     IF k = "signal" THEN [tag |-> "array", v |-> bandflux]
                     ELSE self.sn_params[k]]
    IN [flux |-> IF ok THEN bandflux ELSE <<>>,
        handed |-> [evaluator |-> "sncosmo",
                    params |-> [sn_params |-> self.sn_params,
                                source |-> self.source,
                                t0 |-> self.T0,
                                z |-> self.z]],
        ok |-> ok,
        self |-> IF ok THEN [self EXCEPT !.params = params] ELSE self]

\* model.evaluate(time), dispatched on the model's class
evaluate(model, time) ==
    IF model.cls = "TransitModel" THEN TransitEvaluate(model, time)
    ELSE SupernovaEvaluate(model, time)

\* ----------------------------------------------------------------- inject
NoLightCurve == [cls |-> "None"]

\* SyntheticLightCurve(time, flux=mergedflux, flux_err=flux_err, signaltype=...)
SyntheticLightCurve(time, flux, flux_err, signaltype) ==
    [cls |-> "SyntheticLightCurve",
     flux |-> flux,
     flux_err |-> flux_err,
     signaltype |-> signaltype,
     time |-> time]

\* inject as it would be if it added the signal whatever the model's mode
inject_always_add(time, flux, flux_err, model) ==
    LET ev == evaluate(model, time)
        mergedflux == [i \in DOMAIN flux |-> flux[i] + ev.flux[i]]
    IN [handed |-> ev.handed,
        lc |-> IF ev.ok
               THEN SyntheticLightCurve(time, mergedflux, flux_err, model.signaltype)
               ELSE NoLightCurve,
        model |-> ev.self,
        ok |-> ev.ok,
        synth |-> ev.flux]

\* inject as it would be if it combined flux_err with the signal like the flux
inject_merging_err(time, flux, flux_err, model) ==
    LET ev == evaluate(model, time)
        merge(x) == IF model.multiplicative = TRUE
                    THEN [i \in DOMAIN x |-> x[i] * ev.flux[i]]
                    ELSE [i \in DOMAIN x |-> x[i] + ev.flux[i]]
    IN [handed |-> ev.handed,
        lc |-> IF ev.ok
               THEN SyntheticLightCurve(time, merge(flux), merge(flux_err), model.signaltype)
               ELSE NoLightCurve,
        model |-> ev.self,
        ok |-> ev.ok,
        synth |-> ev.flux]

\* inject: [ok, lc, model, synth, handed]
inject(time, flux, flux_err, model) ==
    LET ev == IF model.multiplicative = TRUE
              THEN evaluate(model, AsFloat(time))
              ELSE evaluate(model, time)
        mergedflux == IF model.multiplicative = TRUE
                      THEN [i \in DOMAIN flux |-> flux[i] * ev.flux[i]]
                      ELSE [i \in DOMAIN flux |-> flux[i] + ev.flux[i]]
    IN [handed |-> ev.handed,
        lc |-> IF ev.ok
               THEN SyntheticLightCurve(time, mergedflux, flux_err, model.signaltype)
               ELSE NoLightCurve,
        model |-> ev.self,
        ok |-> ev.ok,
        synth |-> ev.flux]

\* ---------------------------------------------------------------- recover
Vec(v) == [tag |-> "vec", v |-> v]

SeqMin(s) == CHOOSE x \in {s[i] : i \in DOMAIN s} : \A i \in DOMAIN s : x <= s[i]
SeqMax(s) == CHOOSE x \in {s[i] : i \in DOMAIN s} : \A i \in DOMAIN s : x >= s[i]
LessThan(a, b) == a < b

\* np.median(time): the middle of the sorted values, the mean of the two
\* middle ones for an even count (whole for the even time values used)
Median(s) ==
    LET srt == SortSeq(s, LessThan)
        n == Len(s)
    IN IF n % 2 = 1 THEN srt[(n + 1) \div 2]
       ELSE (srt[n \div 2] + srt[n \div 2 + 1]) \div 2

\* np.percentile(flux, 3): linear interpolation at position 0.03 * (n - 1) of
\* the sorted values, which lies between the two smallest for n < 35
Percentile3(s) ==
    LET srt == SortSeq(s, LessThan)
        n == Len(s)
    IN IF n = 1 THEN srt[1]
       ELSE srt[1] + (3 * (n - 1) * (srt[2] - srt[1])) \div 100

\* amplitude = 3.e-7, in units of 1e-7
AmplitudeGuess == 3

IsSalt(source) == source = "SALT1" \/ source = "SALT2"

\* recover.create_initial_guess
create_initial_guess(signal_type, source, initial_guess, time, flux) ==
    IF signal_type = "Supernova"
    THEN IF IsSalt(source)
         THEN initial_guess
         ELSE IF initial_guess = NoneVal
              THEN Vec(<<Median(time), ZDefault, AmplitudeGuess, Percentile3(flux)>>)
              ELSE initial_guess
    ELSE NoneVal

\* stand-in for -1.e99, above every chi-square the model can reach
Penalty == 1000000000

\* np.sum((flux - model)**2 * inv_sigma2), in eighths
Chisq8(flux, flux_model, flux_err) ==
    LET term(i) == (flux[i] - flux_model[i]) * (flux[i] - flux_model[i])
                      * (8 \div (flux_err[i] * flux_err[i]))
        sum[i \in 0 .. Len(flux)] == IF i = 0 THEN 0 ELSE sum[i - 1] + term(i)
    IN sum[Len(flux)]

ZOut(z) == (z < 0) \/ (z > 30)
T0Out(T0, time) == (T0 < SeqMin(time)) \/ (T0 > SeqMax(time))

\* the supernova candidate is rejected by ln_like's bounds test
SnRejected(theta, source, time) ==
    IF IsSalt(source)
    THEN \/ ZOut(theta[2]) \/ T0Out(theta[1], time)
         \/ (theta[3] < 0) \/ (theta[3] > 1) \/ (theta[4] < 0) \/ (theta[4] > 1)
         \/ (theta[5] < -5) \/ (theta[5] > 5)
    ELSE ZOut(theta[2]) \/ T0Out(theta[1], time)

SnNoDraws(kwargs) == [k \in DOMAIN kwargs \cup {"z"} |-> 0]

\* the SupernovaModel that ln_like builds for a candidate
SnCandidateModel(theta, source, bandpass) ==
    LET kwargs == IF IsSalt(source)
                  THEN [c |-> Lit(theta[5]), x0 |-> Lit(theta[3]), x1 |-> Lit(theta[4])]
                  ELSE [amplitude |-> Lit(theta[3])]
    IN SupernovaModel__init__(Lit(theta[1]), source, bandpass, Lit(theta[2]), kwargs,
                              SnNoDraws(kwargs))

\* model.evaluate(time) + background
SnCandidateFlux(theta, source, bandpass, time) ==
    LET background == IF IsSalt(source) THEN theta[6] ELSE theta[4]
        ev == SupernovaEvaluate(SnCandidateModel(theta, source, bandpass), time)
    IN [i \in DOMAIN time |-> ev.flux[i] + background]

\* recover.ln_like (Supernova) with the bounds test left out
sn_ln_like_unguarded(theta, source, bandpass, time, flux, flux_err) ==
    LET m == SnCandidateModel(theta, source, bandpass)
        chisq == Chisq8(flux, SnCandidateFlux(theta, source, bandpass, time), flux_err)
    IN [built |-> 1,
        evals |-> 1,
        handed |-> SupernovaEvaluate(m, time).handed,
        value |-> IF SnRejected(theta, source, time) THEN -Penalty ELSE -(chisq \div 2)]

\* recover.ln_like (Supernova): [value, evals, built, handed]
sn_ln_like(theta, source, bandpass, time, flux, flux_err) ==
    IF SnRejected(theta, source, time)
    THEN [built |-> 0, evals |-> 0, handed |-> NoneVal, value |-> -Penalty]
    ELSE LET m == SnCandidateModel(theta, source, bandpass)
             chisq == Chisq8(flux, SnCandidateFlux(theta, source, bandpass, time), flux_err)
             lnlikelihood == -(chisq \div 2)
         IN [built |-> 1,
             evals |-> 1,
             handed |-> SupernovaEvaluate(m, time).handed,
             value |-> lnlikelihood]

\* recover.lnprior_optimization
lnprior_optimization(theta) == IF ZOut(theta[2]) THEN -Penalty ELSE 0

\* recover.neg_ln_posterior: [value, evals, built, handed]
neg_ln_posterior(theta, source, bandpass, time, flux, flux_err) ==
    LET like == sn_ln_like(theta, source, bandpass, time, flux, flux_err)
        log_posterior == lnprior_optimization(theta) + like.value
    IN [like EXCEPT !.value = -1 * log_posterior]

\* bls.eebls parameters
nbins == 500

\* what bls.eebls can report: results[1], results[3], results[5], results[6]
BlsResults ==
    { [depth |-> dp, in1 |-> b[1], in2 |-> b[2], period |-> p]
        : p \in {2, 4}, dp \in {4, 9}, b \in {<<250, 250>>, <<0, 500>>} }

\* np.sqrt(depth) for the square depths used
Sqrt(n) == CHOOSE r \in 0 .. n : r * r = n

\* [bls_period, bls_rprs, bls_T0]
BlsGuess(results, time) ==
    LET bls_period == results.period
        bls_rprs == Sqrt(results.depth)
        midtime == ((results.in2 - results.in1) \div 2) + results.in1
        bls_T0 == ((midtime * bls_period) \div nbins) + SeqMin(time)
    IN Vec(<<bls_period, bls_rprs, bls_T0>>)

\* the TransitModel that ln_like builds for a candidate
PlanetCandidateModel(theta) ==
    add_planet(TransitModel__init__,
               [k \in ParamKeys |->
                  IF k = "period" THEN Lit(theta[1])
                  ELSE IF k = "rprs" THEN Lit(theta[2])
                  ELSE IF k = "T0" THEN Lit(theta[3]) ELSE Omitted],
               [k \in ParamKeys |-> 0])

\* recover.ln_like (Planet) with a penalty for a chi-square below 1e-6
planet_ln_like_eps_guard(theta, time, flux, flux_err) ==
    LET ev == TransitEvaluate(PlanetCandidateModel(theta), AsFloat(time))
        chisq == Chisq8(flux, ev.flux, flux_err)
    IN [built |-> 1,
        evals |-> 1,
        handed |-> ev.handed,
        value |-> IF chisq = 0 THEN Penalty ELSE chisq \div 2]

\* recover.ln_like (Planet): [value, evals, built, handed]
planet_ln_like(theta, time, flux, flux_err) ==
    LET model == PlanetCandidateModel(theta)
        t == AsFloat(time)
        ev == TransitEvaluate(model, t)
        chisq == Chisq8(flux, ev.flux, flux_err)
        lnlikelihood == -(chisq \div 2)
    IN [built |-> 1, evals |-> 1, handed |-> ev.handed, value |-> -lnlikelihood]

\* ------------------------------------------------------------------ state
VARIABLES
    lc,            \* the base light curve: time, flux, flux_err
    model,         \* the signal model object in hand (NoModel before any is built)
    samplesDrawn,  \* sample() calls made while building the model in hand
    distArgs,      \* arguments of that build that were Distribution objects
    lastArgs,      \* arguments of the last add_planet call on the model in hand
    nadds,         \* add_planet calls on the model in hand
    overwrote,     \* the last add_planet replaced attributes of an earlier planet
    handed,        \* what the last evaluate call handed to the external evaluator
    ncalls,        \* invocations of an external evaluator
    outcome,       \* how the last evaluate or inject call ended: "ok" or "raise"
    lcinj,         \* the light curve returned by the last inject call
    injModel,      \* the model that call was given
    synth,         \* model.evaluate(time) as seen by that call
    ninj,          \* inject calls that returned
    rc,            \* recover: the call in progress
    it             \* injrec_test: the call in progress

modelVars == <<model, samplesDrawn, distArgs, lastArgs, nadds, overwrote, handed, ncalls, outcome>>
injectVars == <<lcinj, injModel, synth, ninj>>
vars == <<lc, model, samplesDrawn, distArgs, lastArgs, nadds, overwrote, handed, ncalls,
          outcome, lcinj, injModel, synth, ninj, rc, it>>

NoArgs == [k \in {} |-> NoneVal]
NotHanded == [evaluator |-> "none"]
RcIdle ==
    [bandpass |-> "",
     built |-> 0,
     evals |-> 0,
     initial_guess |-> NoneVal,
     nprop |-> 0,
     objective |-> 0,
     outcome |-> "none",
     pc |-> "idle",
     result |-> NoneVal,
     signal_type |-> "",
     source |-> "",
     theta |-> NoneVal,
     x0 |-> NoneVal]
ItIdle ==
    [constr |-> 0,
     i |-> 0,
     injected |-> <<>>,
     nrecovered |-> 0,
     ntests |-> 0,
     outcome |-> "none",
     passlog |-> <<>>,
     pc |-> "idle",
     recovered |-> <<>>,
     result |-> NoneVal,
     signal_type |-> ""]

\* ------------------------------------------------------ inputs of the models
OptKeys == {"a", "inc", "ecc", "w", "limb_dark", "u"}

\* the non-default value a caller passes for an optional add_planet keyword
Supplied ==
    [a |-> Lit(10),
     ecc |-> Lit(1),
     inc |-> Lit(80),
     limb_dark |-> Lit("linear"),
     u |-> Lit(<<5>>),
     w |-> Lit(0)]

PeriodChoices == {Lit(2), Lit(4), UniformDistribution(2, 4)}
RprsChoices == {Lit(0), Lit(3), GaussianDistribution(2, 1)}
T0Choices == {Omitted, Lit(2), UniformDistribution(0, 2)}
OptChoices == {{}} \cup {{k} : k \in OptKeys} \cup {OptKeys}

MkPlanetArgs(p, r, t, S) ==
    [k \in ParamKeys |->
       IF k = "period" THEN p
       ELSE IF k = "rprs" THEN r
       ELSE IF k = "T0" THEN t
       ELSE IF k \in S THEN Supplied[k] ELSE Omitted]

\* calls that leave the optional keywords alone, and calls that pass some
PlanetArgs ==
    { MkPlanetArgs(p, r, t, {}) : p \in PeriodChoices, r \in RprsChoices, t \in T0Choices }
    \cup { MkPlanetArgs(Lit(2), Lit(3), Omitted, S) : S \in OptChoices }

SnT0Choices == {Lit(0), Lit(2), UniformDistribution(0, 4)}
SnBandpasses == {"kepler", "bessellb"}
SnZChoices == {Omitted, Lit(10), UniformDistribution(1, 3)}
SnKwargs ==
    { [k \in {} |-> NoneVal],
      [amplitude |-> Lit(2)],
      [amplitude |-> GaussianDistribution(2, 1)],
      [c |-> Lit(0), x0 |-> Lit(1), x1 |-> Lit(0)] }

\* the source template that takes the given keywords
SourceFor(kwargs) == IF "x0" \in DOMAIN kwargs THEN "salt2" ELSE "hsiao"

NumDist(f) == Cardinality({k \in DOMAIN f : IsDistribution(f[k])})

\* ----------------------------------------------------------------- actions
\* model = TransitModel()
NewTransitModel ==
    /\ model' = TransitModel__init__
    /\ samplesDrawn' = 0
    /\ distArgs' = 0
    /\ lastArgs' = NoArgs
    /\ nadds' = 0
    /\ overwrote' = FALSE
    /\ handed' = NotHanded
    /\ outcome' = "ok"
    /\ UNCHANGED <<lc, ncalls, injectVars, rc, it>>

\* model.add_planet(**args)
AddPlanet(args) ==
    /\ model.cls = "TransitModel"
    /\ LET params == PlanetParams(args)
       IN \E dp \in sample(params["period"]), dr \in sample(params["rprs"]),
             dt \in sample(params["T0"]) :
            LET draws == [k \in ParamKeys |->
                            IF k = "period" THEN dp
                            ELSE IF k = "rprs" THEN dr
                            ELSE IF k = "T0" THEN dt ELSE 0]
                new == add_planet(model, args, draws)
            IN /\ model' = new
               /\ overwrote' = (nadds > 0 /\ new.attrs # model.attrs)
    /\ samplesDrawn' = NumDist(PlanetParams(args))
    /\ distArgs' = NumDist(args)
    /\ lastArgs' = args
    /\ nadds' = IF nadds < 2 THEN nadds + 1 ELSE nadds
    /\ handed' = NotHanded
    /\ outcome' = "ok"
    /\ UNCHANGED <<lc, ncalls, injectVars, rc, it>>

\* model = SupernovaModel(T0, source=..., bandpass=..., z=..., **kwargs)
NewSupernovaModel(T0, source, bandpass, z, kwargs) ==
    /\ \E dz \in sample(z),
          da \in (IF "amplitude" \in DOMAIN kwargs THEN sample(kwargs["amplitude"]) ELSE {0}) :
         LET draws == [k \in DOMAIN kwargs \cup {"z"} |->
                         IF k = "z" THEN dz ELSE IF k = "amplitude" THEN da ELSE 0]
         IN model' = SupernovaModel__init__(T0, source, bandpass, z, kwargs, draws)
    /\ samplesDrawn' = NumDist(kwargs) + (IF IsDistribution(z) THEN 1 ELSE 0)
    /\ distArgs' = NumDist(kwargs) + (IF IsDistribution(z) THEN 1 ELSE 0)
                     + (IF IsDistribution(T0) THEN 1 ELSE 0)
    /\ lastArgs' = NoArgs
    /\ nadds' = 0
    /\ overwrote' = FALSE
    /\ handed' = NotHanded
    /\ outcome' = "ok"
    /\ UNCHANGED <<lc, ncalls, injectVars, rc, it>>

\* model.evaluate(lc.time)
Evaluate ==
    /\ model.cls # "None"
    /\ ncalls < MaxEvals
    /\ LET ev == evaluate(model, lc.time)
       IN /\ model' = ev.self
          /\ handed' = ev.handed
          /\ outcome' = IF ev.ok THEN "ok" ELSE "raise"
    /\ ncalls' = ncalls + 1
    /\ UNCHANGED <<lc, samplesDrawn, distArgs, lastArgs, nadds, overwrote, injectVars, rc, it>>

\* lcinj = inject(lc.time, lc.flux, lc.flux_err, model)
Inject ==
    /\ model.cls # "None"
    /\ ncalls < MaxEvals
    /\ LET r == inject(lc.time, lc.flux, lc.flux_err, model)
       IN /\ model' = r.model
          /\ handed' = r.handed
          /\ outcome' = IF r.ok THEN "ok" ELSE "raise"
          /\ IF r.ok
             THEN /\ lcinj' = r.lc
                  /\ injModel' = model
                  /\ synth' = r.synth
                  /\ ninj' = ninj + 1
             ELSE UNCHANGED injectVars
    /\ ncalls' = ncalls + 1
    /\ UNCHANGED <<lc, samplesDrawn, distArgs, lastArgs, nadds, overwrote, rc, it>>

Init ==
    /\ lc \in LightCurves
    /\ model = NoModel
    /\ samplesDrawn = 0
    /\ distArgs = 0
    /\ lastArgs = NoArgs
    /\ nadds = 0
    /\ overwrote = FALSE
    /\ handed = NotHanded
    /\ ncalls = 0
    /\ outcome = "ok"
    /\ lcinj = NoLightCurve
    /\ injModel = NoModel
    /\ synth = <<>>
    /\ ninj = 0
    /\ rc = RcIdle
    /\ it = ItIdle

\* the models a light curve is injected with
InjPlanetArgs ==
    { a \in PlanetArgs :
        /\ a["period"] \in {Lit(2), Lit(4)}
        /\ a["rprs"] \in {Lit(0), Lit(3)}
        /\ a["T0"] \in {Omitted, Lit(2)}
        /\ \A k \in OptKeys : a[k] = Omitted }

InjSnKwargs == {[amplitude |-> Lit(0)], [amplitude |-> Lit(2)]}

Next ==
    \/ NewTransitModel
    \/ \E args \in PlanetArgs : AddPlanet(args)
    \/ \E T0 \in SnT0Choices, bandpass \in SnBandpasses, z \in SnZChoices, kwargs \in SnKwargs :
            NewSupernovaModel(T0, SourceFor(kwargs), bandpass, z, kwargs)
    \/ Evaluate

Spec == Init /\ [][Next]_vars

NextInject ==
    \/ NewTransitModel
    \/ \E args \in InjPlanetArgs : AddPlanet(args)
    \/ \E T0 \in SnT0Choices, bandpass \in SnBandpasses, kwargs \in InjSnKwargs :
            NewSupernovaModel(T0, "hsiao", bandpass, Omitted, kwargs)
    \/ Inject

SpecInject == Init /\ [][NextInject]_vars

\* ------------------------------------------------------- inputs of recover
SignalTypes == {"Supernova", "Planet", "Star"}
Sources == {"hsiao", "SALT2"}

\* an explicit guess vector of the length the signal type and source take
GuessFor(signal_type, source) ==
    IF signal_type = "Planet" THEN Vec(<<4, 3, 0>>)
    ELSE IF IsSalt(source) THEN Vec(<<2, 5, 1, 0, 0, 100>>)
    ELSE Vec(<<2, 10, 1, 100>>)

\* the vectors the optimizer may try
Candidates(signal_type, source, time) ==
    IF signal_type = "Planet"
    THEN { <<p, r, t>> : p \in {2, 4}, r \in {0, 3}, t \in {0, 2} }
    ELSE IF IsSalt(source)
    THEN { <<t, z, x0, x1, c, b>> :
             t \in {SeqMin(time) - 2, 2}, z \in {-1, 5, 31}, x0 \in {0, 2}, x1 \in {0},
             c \in {0, 6}, b \in {100} }
    ELSE { <<t, z, a, b>> :
             t \in {SeqMin(time) - 2, 2, SeqMax(time) + 2}, z \in {-1, 5, 31},
             a \in {0, 1}, b \in {0, 100} }

AllCandidates ==
    UNION { Candidates(signal_type, source, Time) :
              signal_type \in {"Supernova", "Planet"}, source \in Sources }

\* recover(time, flux, flux_err, signal_type, source, bandpass, initial_guess)
\* up to the call of op.minimize, or to the return for an unsupported type
RecoverCall(signal_type, source, bandpass, initial_guess, results) ==
    /\ rc.pc = "idle"
    /\ LET call == [RcIdle EXCEPT !.signal_type = signal_type, !.source = source,
                                  !.bandpass = bandpass, !.initial_guess = initial_guess]
       IN IF signal_type = "Supernova"
          THEN LET x0 == create_initial_guess(signal_type, source, initial_guess,
                                               lc.time, lc.flux)
               IN rc' = IF x0 = NoneVal
                        THEN [call EXCEPT !.pc = "returned", !.x0 = x0, !.outcome = "raise"]
                        ELSE [call EXCEPT !.pc = "optimizing", !.x0 = x0]
          ELSE IF signal_type = "Planet"
          THEN rc' = [call EXCEPT !.pc = "optimizing", !.x0 = BlsGuess(results, lc.time)]
          ELSE rc' = [call EXCEPT !.pc = "returned", !.outcome = "return", !.result = NoneVal]
    /\ UNCHANGED <<lc, modelVars, injectVars, it>>

\* op.minimize evaluates the objective at a vector of its choice
OptimizerPropose(theta) ==
    /\ rc.pc = "optimizing"
    /\ rc.nprop < MaxProposals
    /\ theta \in Candidates(rc.signal_type, rc.source, lc.time)
    /\ LET r == IF rc.signal_type = "Supernova"
                THEN neg_ln_posterior(theta, rc.source, rc.bandpass,
                                      lc.time, lc.flux, lc.flux_err)
                ELSE planet_ln_like(theta, lc.time, lc.flux, lc.flux_err)
       IN /\ rc' = [rc EXCEPT !.theta = Vec(theta), !.objective = r.value,
                              !.evals = r.evals, !.built = r.built,
                              !.nprop = rc.nprop + 1]
          /\ ncalls' = ncalls + r.evals
          /\ handed' = IF r.evals > 0 THEN r.handed ELSE handed
    /\ UNCHANGED <<lc, model, samplesDrawn, distArgs, lastArgs, nadds, overwrote, outcome,
                   injectVars, it>>

\* return result.x
RecoverReturn ==
    /\ rc.pc = "optimizing"
    /\ rc.nprop > 0
    /\ rc' = [rc EXCEPT !.pc = "returned", !.result = rc.theta, !.outcome = "return"]
    /\ UNCHANGED <<lc, modelVars, injectVars, it>>

NextRecover ==
    \/ \E signal_type \in SignalTypes, source \in Sources, bandpass \in SnBandpasses,
          given \in BOOLEAN, results \in BlsResults :
            RecoverCall(signal_type, source, bandpass,
                        IF given THEN GuessFor(signal_type, source) ELSE NoneVal, results)
    \/ \E theta \in AllCandidates : OptimizerPropose(theta)
    \/ RecoverReturn

SpecRecover == Init /\ [][NextRecover]_vars

\* ------------------------------------------------------------ injrec_test
Abs(x) == IF x < 0 THEN -x ELSE x

\* the test of lines 444 and 465 with any one parameter in tolerance enough
Recovered_any(injected, recovered, constr) ==
    \/ 100 * Abs(recovered[1] - injected[1]) < constr * injected[1]
    \/ 100 * Abs(recovered[2] - injected[2]) < constr * injected[2]
    \/ 100 * Abs(recovered[3] - injected[3]) < constr * injected[3]

\* abs(x_f - x_test) < constr * x_test for the three parameters, constr in percent
Recovered(injected, recovered, constr) ==
    /\ 100 * Abs(recovered[1] - injected[1]) < constr * injected[1]
    /\ 100 * Abs(recovered[2] - injected[2]) < constr * injected[2]
    /\ 100 * Abs(recovered[3] - injected[3]) < constr * injected[3]

\* the distributions a campaign draws from: T0, z, amplitude for a supernova,
\* period, rprs, T0 for a planet
TestDistributions(signal_type) ==
    IF signal_type = "Supernova"
    THEN <<UniformDistribution(0, 2), UniformDistribution(4, 6), UniformDistribution(1, 3)>>
    ELSE <<UniformDistribution(2, 4), UniformDistribution(1, 3), UniformDistribution(0, 2)>>

\* the model a trial builds from the values it drew
TestModel(signal_type, x) ==
    IF signal_type = "Supernova"
    THEN SupernovaModel__init__(Lit(x[1]), "Hsiao", "Kepler", Lit(x[2]),
                                [amplitude |-> Lit(x[3])],
                                SnNoDraws([amplitude |-> Lit(x[3])]))
    ELSE PlanetCandidateModel(x)

\* what lcinj.recover can return for a trial: each parameter as injected or
\* off by one
LcRecover(x) ==
    { <<a, b, c>> : a \in {x[1], x[1] + 1}, b \in {x[2], x[2] + 1}, c \in {x[3], x[3] + 1} }

ConstrChoices == {50, 150}

\* injrec_test(lc, signal_type, ntests, constr, ...) up to the loop, or to the
\* return for an unsupported signal type
InjrecTestCall(signal_type, ntests, constr) ==
    /\ it.pc = "idle"
    /\ LET call == [ItIdle EXCEPT !.signal_type = signal_type, !.ntests = ntests,
                                  !.constr = constr]
       IN IF signal_type \in {"Supernova", "Planet"}
          THEN it' = [call EXCEPT !.pc = "loop", !.nrecovered = 0]
          ELSE it' = [call EXCEPT !.pc = "returned", !.outcome = "return",
                                  !.result = NoneVal]
    /\ UNCHANGED <<lc, modelVars, injectVars, rc>>

\* one pass of the loop: sample, build the model, inject, recover, compare
InjrecTrial ==
    /\ it.pc = "loop"
    /\ it.i < it.ntests
    /\ LET dist == TestDistributions(it.signal_type)
       IN \E x1 \in sample(dist[1]), x2 \in sample(dist[2]), x3 \in sample(dist[3]) :
            LET x == <<x1, x2, x3>>
                m == TestModel(it.signal_type, x)
                r == inject(lc.time, lc.flux, lc.flux_err, m)
            IN /\ model' = r.model
               /\ lcinj' = r.lc
               /\ injModel' = m
               /\ synth' = r.synth
               /\ \E f \in LcRecover(x) :
                    LET pass == Recovered(x, f, it.constr)
                    IN it' = [it EXCEPT
                                !.i = it.i + 1,
                                !.injected = x,
                                !.recovered = f,
                                !.nrecovered = IF pass THEN it.nrecovered + 1
                                               ELSE it.nrecovered,
                                !.passlog = Append(it.passlog, pass)]
    /\ samplesDrawn' = 0
    /\ distArgs' = 0
    /\ lastArgs' = NoArgs
    /\ nadds' = 0
    /\ overwrote' = FALSE
    /\ UNCHANGED <<lc, handed, ncalls, outcome, ninj, rc>>

\* return (nrecovered / ntests)
InjrecReturn ==
    /\ it.pc = "loop"
    /\ it.i = it.ntests
    /\ it' = IF it.ntests = 0
             THEN [it EXCEPT !.pc = "returned", !.outcome = "raise"]
             ELSE [it EXCEPT !.pc = "returned", !.outcome = "return",
                             !.result = [den |-> it.ntests, num |-> it.nrecovered]]
    /\ UNCHANGED <<lc, modelVars, injectVars, rc>>

NextCampaign ==
    \/ \E signal_type \in SignalTypes, ntests \in 0 .. MaxTests, constr \in ConstrChoices :
            InjrecTestCall(signal_type, ntests, constr)
    \/ InjrecTrial
    \/ InjrecReturn

SpecCampaign == Init /\ [][NextCampaign]_vars

\* ================================================================== claims
Injected == lcinj.cls # "None"

\* C1: the light curve inject returns has, at every index, the observed flux
\* times the synthetic flux for a multiplicative model and the observed flux
\* plus the synthetic flux otherwise, the synthetic flux being
\* model.evaluate(time); for a constant synthetic flux k that is observed * k
\* or observed + k.
C1_InjectCombines ==
    Injected =>
        /\ synth = evaluate(injModel, lc.time).flux
        /\ \A i \in 1 .. NPoints :
             lcinj.flux[i] = IF injModel.multiplicative
                             THEN lc.flux[i] * synth[i]
                             ELSE lc.flux[i] + synth[i]
        /\ \A k \in {synth[1]} :
             (\A i \in 1 .. NPoints : synth[i] = k) =>
                \A i \in 1 .. NPoints :
                   lcinj.flux[i] = IF injModel.multiplicative
                                   THEN lc.flux[i] * k ELSE lc.flux[i] + k

\* a transit with a dip at one time only has been injected
C1_Witness ==
    /\ Injected
    /\ injModel.multiplicative
    /\ synth[1] # synth[2]
    /\ lcinj.flux[2] = lc.flux[2] * synth[2]

\* the mapping of named parameters a model resolved
ResolvedParams(m) == IF m.cls = "TransitModel" THEN m.attrs ELSE m.sn_params

\* C2: the light curve inject returns carries the model's signal type and the
\* model's resolved parameters, with the synthetic flux under the key "signal".
C2_Provenance ==
    Injected =>
        /\ lcinj.signaltype = injModel.signaltype
        /\ "params" \in DOMAIN lcinj
        /\ "signal" \in DOMAIN lcinj.params
        /\ lcinj.params["signal"].v = synth
        /\ \A k \in DOMAIN ResolvedParams(injModel) :
             k \in DOMAIN lcinj.params /\ lcinj.params[k] = ResolvedParams(injModel)[k]

\* C8: every light curve inject returns has the flux_err of the base light
\* curve, element for element.
C8_FluxErrUnchanged ==
    Injected =>
        /\ Len(lcinj.flux_err) = Len(lc.flux_err)
        /\ \A i \in 1 .. NPoints : lcinj.flux_err[i] = lc.flux_err[i]

\* a second injection into the same base light curve changed the flux
C8_Witness ==
    /\ ninj >= 2
    /\ lcinj.flux # lc.flux

StoredScalars(m) ==
    IF m.cls = "TransitModel"
    THEN \A k \in DOMAIN m.attrs : IsScalar(m.attrs[k])
    ELSE /\ IsScalar(m.T0)
         /\ IsScalar(m.z)
         /\ \A k \in DOMAIN m.sn_params : IsScalar(m.sn_params[k])

HandedScalars ==
    IF handed.evaluator = "batman"
    THEN \A k \in BatmanKeys : IsScalar(handed.params[k])
    ELSE IF handed.evaluator = "sncosmo"
    THEN /\ IsScalar(handed.params.t0)
         /\ IsScalar(handed.params.z)
         /\ \A k \in DOMAIN handed.params.sn_params : IsScalar(handed.params.sn_params[k])
    ELSE TRUE

\* C7: every parameter given as a Distribution is sampled exactly once when
\* the model is built, so the model stores scalars only and evaluate hands
\* scalars only to the external evaluator.
C7_ResolveOnBuild ==
    model.cls # "None" =>
        /\ samplesDrawn = distArgs
        /\ StoredScalars(model)
        /\ HandedScalars

AllLiteral(args) == \A k \in DOMAIN args : ~IsDistribution(args[k])

ZeroDraws == [k \in ParamKeys |-> 0]

\* C10: after add_planet(A) and then add_planet(B) with literal arguments,
\* the attributes and the evaluator's parameters are those of a fresh
\* TransitModel after add_planet(B) alone, and no error was raised.
C10_SecondPlanetOverwrites ==
    (model.cls = "TransitModel" /\ nadds >= 1 /\ AllLiteral(lastArgs)) =>
        /\ model = add_planet(TransitModel__init__, lastArgs, ZeroDraws)
        /\ handed.evaluator = "batman" =>
             handed.params = add_planet(TransitModel__init__, lastArgs, ZeroDraws).model
        /\ outcome = "ok"

\* a second planet with literal arguments replaced attributes of the first
C10_Witness ==
    /\ model.cls = "TransitModel"
    /\ nadds = 2
    /\ overwrote
    /\ AllLiteral(lastArgs)

Supported(signal_type) == signal_type \in {"Supernova", "Planet"}

Proposed == rc.nprop > 0

\* C3: a supernova candidate with z outside [0, 3] or T0 outside the observed
\* time range gets the penalty as its objective value, and neither the
\* SupernovaModel is built nor the external evaluator invoked for it.
C3_OutOfBoundsShortCircuits ==
    (/\ Proposed
     /\ rc.signal_type = "Supernova"
     /\ ZOut(rc.theta.v[2]) \/ T0Out(rc.theta.v[1], lc.time)) =>
        /\ rc.objective \in {Penalty, 2 * Penalty}
        /\ rc.evals = 0
        /\ rc.built = 0

\* a candidate with z above 3 has been scored without any evaluator call
C3_Witness ==
    /\ Proposed
    /\ rc.signal_type = "Supernova"
    /\ rc.theta.v[2] > 30
    /\ rc.objective >= Penalty
    /\ ncalls = 0

\* C4: recover and injrec_test called with a signal type other than
\* 'Supernova' and 'Planet' end in an error, not in a normal return.
C4_UnsupportedRaises ==
    /\ (rc.pc = "returned" /\ ~Supported(rc.signal_type)) => rc.outcome = "raise"
    /\ (it.pc = "returned" /\ ~Supported(it.signal_type)) => it.outcome = "raise"

\* C5: the vector recover starts the optimizer from is the caller's
\* initial_guess when one is given and a heuristic guess, never None,
\* when none is given.
C5_StartVector ==
    (rc.pc # "idle" /\ Supported(rc.signal_type)) =>
        IF rc.initial_guess # NoneVal
        THEN rc.x0 = rc.initial_guess
        ELSE rc.x0.tag = "vec"

\* the candidate last scored passed the bounds test of its objective
InBounds ==
    /\ Proposed
    /\ rc.signal_type = "Planet" \/ ~SnRejected(rc.theta.v, rc.source, lc.time)

\* chi-square of the candidate last scored, in eighths
CandidateChisq8 ==
    Chisq8(lc.flux,
           IF rc.signal_type = "Planet"
           THEN TransitEvaluate(PlanetCandidateModel(rc.theta.v), lc.time).flux
           ELSE SnCandidateFlux(rc.theta.v, rc.source, rc.bandpass, lc.time),
           lc.flux_err)

\* chi-square below 1e-6: zero, at a resolution of one eighth
BelowEpsilon(chisq8) == chisq8 = 0

\* C9 as stated: an in-bounds candidate with chi-square below 1e-6 is given a
\* large penalty, every other in-bounds candidate 0.5 * chi-square.
C9_NearZeroPenalised ==
    InBounds =>
        IF BelowEpsilon(CandidateChisq8)
        THEN rc.objective >= Penalty
        ELSE 2 * rc.objective = CandidateChisq8

\* C9 as amended: every in-bounds candidate, one with chi-square below 1e-6
\* included, is scored 0.5 * chi-square in the Supernova and in the Planet
\* objective.
C9_AlwaysHalfChisq ==
    InBounds =>
        /\ 2 * rc.objective = CandidateChisq8
        /\ rc.objective < Penalty

\* a planet candidate that fits the light curve exactly has been scored 0
C9_Witness ==
    /\ InBounds
    /\ rc.signal_type = "Planet"
    /\ BelowEpsilon(CandidateChisq8)
    /\ rc.objective = 0

NumPassed(log) == Cardinality({j \in 1 .. Len(log) : log[j]})

\* C6: the counter starts at 0, goes up by exactly one in a trial if and only
\* if every compared parameter is within constr of its injected value, so it
\* is the number of passing trials whatever their order and lies between 0
\* and the trials completed; the result is nrecovered / ntests.
C6_RecoveredFraction ==
    /\ [](Supported(it.signal_type) =>
            /\ it.i = Len(it.passlog)
            /\ it.nrecovered = NumPassed(it.passlog)
            /\ 0 <= it.nrecovered /\ it.nrecovered <= it.i
            /\ (it.pc = "returned" /\ it.ntests > 0) =>
                 /\ it.i = it.ntests
                 /\ it.result = [den |-> it.ntests, num |-> it.nrecovered])
    /\ [][it'.i = it.i + 1 =>
            /\ it'.nrecovered \in {it.nrecovered, it.nrecovered + 1}
            /\ (it'.nrecovered = it.nrecovered + 1) <=>
                 \A k \in 1 .. 3 :
                    100 * Abs(it'.recovered[k] - it'.injected[k])
                       < it'.constr * it'.injected[k]]_vars

\* a campaign has returned with a failed trial followed by a recovered one
C6_Witness ==
    /\ it.pc = "returned"
    /\ it.ntests >= 2
    /\ Len(it.passlog) >= 2
    /\ it.passlog[1] = FALSE
    /\ it.passlog[2] = TRUE
    /\ it.result.num >= 1

====
